---- MODULE Spec2Model ----
(***************************************************************************)
(* Checkout saga of the order-processing repository: the Cart service      *)
(* (src/unnamed/part_004), the Inventory service (src/unnamed/part_005)    *)
(* and the Order service (src/packages/notification-service/src/index.ts,  *)
(* lines 588-1006), over one PostgreSQL database and Pub/Sub topics.       *)
(*                                                                         *)
(* A request or a message delivery is a process with a program counter;    *)
(* every `await` of the source on the database or the bus is one step.     *)
(* A transaction's writes become visible at its COMMIT (READ COMMITTED);   *)
(* an UPDATE of a row waits for the transaction that holds the row.        *)
(***************************************************************************)
EXTENDS Integers, Sequences, FiniteSets, TLC

\* ---------------------------------------------------------------- bounds
MaxCarts == 2        \* cart rows ever created
MaxReqs == 2         \* HTTP requests handled at the same time
MaxAdds == 2         \* add_item requests ever started
MaxInFlight == 2     \* deliveries of one subscription handled at the same time
MaxMsgs == 2         \* messages ever published to the order-requested topic
MaxCancels == 2      \* messages ever published to the order.cancelled topic
MaxConverted == 1    \* carts already converted when a service is studied alone
MaxAvail == 2        \* messages arriving on the stock-available topic
MaxOrders == 4       \* order rows ever inserted

Customers == {"john"}
SKUs == {"LAP-001", "PHN-001"}
Qtys == {2, 20}
Reqs == 1 .. MaxReqs
CartIds == 1 .. MaxCarts

\* ------------------------------------------------------------------ state
VARIABLES
  carts,          \* table carts: sequence of rows, a row's index is its id
  cart_items,     \* table cart_items: cart id -> sku -> quantity (0: no row)
  rowLock,        \* cart id -> request whose open transaction updated the row
  req,            \* request slot -> the request being handled there
  adds,           \* add_item requests started
  added,          \* customer -> sku -> quantity added by committed add_item requests
  inTx,           \* request slot -> its pooled client has a transaction open
  orderRequested, \* topic order-requested: sequence of published messages
  inventory,      \* table inventory: sku -> quantity
  invLedger,      \* table processed_messages, rows of service 'inventory-service'
  invW,           \* deliveries of inventory-service-order-requested being handled
  invAcked,       \* messages acknowledged on inventory-service-order-requested
  canW,           \* deliveries of inventory-service-order-cancelled being handled
  canAcked,       \* messages acknowledged on inventory-service-order-cancelled
  restocks,       \* order-cancelled message -> sku -> restock UPDATEs executed
  inventoryStatus,\* topic inventory-status: sequence of published messages
  stockAvailable, \* topic stock-available: sequence of published messages
  stockRejected,  \* topic stock.rejected: sequence of published messages
  orderCancelled, \* topic order.cancelled: sequence of published messages
  orders,         \* table orders: sequence of rows, a row's index is its id
  order_items,    \* table order_items: order id -> sku -> quantity (0: no row)
  ordLock,        \* order id -> request whose open transaction updated the row
  ordLedger,      \* table processed_messages, rows of service 'order-service'
  ordW,           \* deliveries of order-service-stock-available being handled
  ordAcked,       \* messages acknowledged on order-service-stock-available
  oreq,           \* request slot -> the Order service request handled there
  orderCreated,   \* topic order.created: sequence of published messages
  cartRejAcked,   \* messages acknowledged on cart-service-stock-rejected
  cartAvailAcked, \* messages acknowledged on cart-service-stock-available
  notifications,  \* table notifications: sequence of rows
  notW,           \* deliveries of the notification-service-* subscriptions being handled
  notAcked        \* messages acknowledged on the notification-service-* subscriptions

cartVars == <<carts, cart_items, rowLock, req, adds, added, inTx, orderRequested>>
invVars == <<inventory, invLedger, invW, invAcked, canW, canAcked, restocks,
             inventoryStatus, stockAvailable, stockRejected>>
ordVars == <<orders, order_items, ordLock, ordLedger, ordW, ordAcked, oreq, orderCreated>>
notVars == <<notifications, notW, notAcked>>
subVars == <<cartRejAcked, cartAvailAcked, notVars>>
vars == <<cartVars, invVars, orderCancelled, ordVars, subVars>>

NoItems == [s \in SKUs |-> 0]

IdleReq == [op |-> "none", pc |-> "idle", customer |-> "none", cart |-> 0,
            sku |-> "none", qty |-> 0, items |-> NoItems, res |-> 0]

\* SELECT * FROM carts WHERE customer_id = $1 AND cart_locked = FALSE
UnlockedCarts(cust) ==
  {c \in 1 .. Len(carts) : carts[c].customer_id = cust /\ ~carts[c].cart_locked}

\* carts being created by transactions that have not committed yet
PendingCreates == Cardinality({r \in Reqs : req[r].pc = "add_write" /\ req[r].cart = 0})

Respond(r, code) == [IdleReq EXCEPT !.op = req[r].op, !.customer = req[r].customer,
                                    !.cart = req[r].cart, !.res = code]

InitCart ==
  /\ carts = <<>>
  /\ cart_items = [c \in CartIds |-> NoItems]
  /\ rowLock = [c \in CartIds |-> 0]
  /\ req = [r \in Reqs |-> IdleReq]
  /\ adds = 0
  /\ added = [cust \in Customers |-> NoItems]
  /\ inTx = [r \in Reqs |-> FALSE]
  /\ orderRequested = <<>>

\* ------------------------------------------------- POST /cart/items
\* BEGIN, then the SELECT of the unlocked cart; rows[0] of a SELECT without
\* ORDER BY is any of the matching rows.
AddItemSelect(r, cust, sku, qty) ==
  /\ req[r].pc = "idle"
  /\ adds < MaxAdds
  /\ adds' = adds + 1
  /\ IF UnlockedCarts(cust) = {}
       THEN /\ Len(carts) + PendingCreates < MaxCarts
            /\ req' = [req EXCEPT ![r] = [IdleReq EXCEPT !.op = "add", !.pc = "add_write",
                          !.customer = cust, !.sku = sku, !.qty = qty, !.cart = 0]]
       ELSE \E c \in UnlockedCarts(cust) :
              req' = [req EXCEPT ![r] = [IdleReq EXCEPT !.op = "add", !.pc = "add_write",
                          !.customer = cust, !.sku = sku, !.qty = qty, !.cart = c]]
  /\ inTx' = [inTx EXCEPT ![r] = TRUE]
  /\ UNCHANGED <<carts, cart_items, rowLock, added, orderRequested>>

\* INSERT INTO carts (when none was found), the upsert of the line, COMMIT
AddItemCommit(r) ==
  /\ req[r].pc = "add_write"
  /\ LET c == IF req[r].cart = 0 THEN Len(carts) + 1 ELSE req[r].cart IN
       /\ carts' = IF req[r].cart = 0
                     THEN Append(carts, [customer_id |-> req[r].customer,
                                         cart_locked |-> FALSE, status |-> "active"])
                     ELSE carts
       /\ cart_items' = [cart_items EXCEPT ![c][req[r].sku] = @ + req[r].qty]
       /\ req' = [req EXCEPT ![r] = [Respond(r, 200) EXCEPT !.cart = c]]
  /\ added' = [added EXCEPT ![req[r].customer][req[r].sku] = @ + req[r].qty]
  /\ inTx' = [inTx EXCEPT ![r] = FALSE]
  /\ UNCHANGED <<rowLock, adds, orderRequested>>

\* ------------------------------------------------- DELETE /cart/items/:sku
\* BEGIN, then the SELECT of the unlocked cart; the 404 is returned with
\* neither COMMIT nor ROLLBACK before client.release()
RemoveItemSelect(r, cust, sku) ==
  /\ req[r].pc = "idle"
  /\ IF UnlockedCarts(cust) = {}
       THEN req' = [req EXCEPT ![r] = [IdleReq EXCEPT !.op = "remove",
                          !.customer = cust, !.res = 404]]
       ELSE \E c \in UnlockedCarts(cust) :
              req' = [req EXCEPT ![r] = [IdleReq EXCEPT !.op = "remove", !.pc = "rm_write",
                          !.customer = cust, !.sku = sku, !.cart = c]]
  /\ inTx' = [inTx EXCEPT ![r] = TRUE]
  /\ UNCHANGED <<carts, cart_items, rowLock, adds, added, orderRequested>>

\* DELETE FROM cart_items WHERE cart_id = $1 AND product_sku = $2, COMMIT
RemoveItemCommit(r) ==
  /\ req[r].pc = "rm_write"
  /\ cart_items' = [cart_items EXCEPT ![req[r].cart][req[r].sku] = 0]
  /\ req' = [req EXCEPT ![r] = Respond(r, 200)]
  /\ inTx' = [inTx EXCEPT ![r] = FALSE]
  /\ UNCHANGED <<carts, rowLock, adds, added, orderRequested>>

\* ------------------------------------------------- POST /cart/convert-to-order
\* requests that have begun a convert and may still publish
Converting == Cardinality({r \in Reqs : req[r].pc \in {"conv_items", "conv_lock", "conv_publish"}})

\* BEGIN, then the SELECT of the unlocked cart (404 when there is none)
ConvertSelectCart(r, cust) ==
  /\ req[r].pc = "idle"
  /\ Len(orderRequested) + Converting < MaxMsgs
  /\ IF UnlockedCarts(cust) = {}
       THEN req' = [req EXCEPT ![r] = [IdleReq EXCEPT !.op = "convert",
                          !.customer = cust, !.res = 404]]
       ELSE \E c \in UnlockedCarts(cust) :
              req' = [req EXCEPT ![r] = [IdleReq EXCEPT !.op = "convert", !.pc = "conv_items",
                          !.customer = cust, !.cart = c]]
  /\ inTx' = [inTx EXCEPT ![r] = TRUE]
  /\ UNCHANGED <<carts, cart_items, rowLock, adds, added, orderRequested>>

\* A conversion that does not look at the number of item rows: what
\* ConvertSelectItems must not be
ConvertSelectItemsUnchecked(r) ==
  /\ req[r].pc = "conv_items"
  /\ req' = [req EXCEPT ![r].pc = "conv_lock", ![r].items = cart_items[req[r].cart]]
  /\ UNCHANGED <<carts, cart_items, rowLock, adds, added, inTx, orderRequested>>

\* SELECT * FROM cart_items WHERE cart_id = $1 (400 when there are no rows)
ConvertSelectItems(r) ==
  /\ req[r].pc = "conv_items"
  /\ IF cart_items[req[r].cart] = NoItems
       THEN req' = [req EXCEPT ![r] = Respond(r, 400)]
       ELSE req' = [req EXCEPT ![r].pc = "conv_lock", ![r].items = cart_items[req[r].cart]]
  /\ UNCHANGED <<carts, cart_items, rowLock, adds, added, inTx, orderRequested>>

\* UPDATE carts SET cart_locked = TRUE WHERE id = $1: takes the row, inside
\* the transaction; it waits while another open transaction holds the row.
ConvertLock(r) ==
  /\ req[r].pc = "conv_lock"
  /\ rowLock[req[r].cart] = 0
  /\ rowLock' = [rowLock EXCEPT ![req[r].cart] = r]
  /\ req' = [req EXCEPT ![r].pc = "conv_publish"]
  /\ UNCHANGED <<carts, cart_items, adds, added, inTx, orderRequested>>

OrderRequestedEvent(r) ==
  [cart_id |-> req[r].cart, customer_id |-> carts[req[r].cart].customer_id,
   items |-> req[r].items]

\* A publish that is not awaited and is lost: what ConvertPublish must not be
ConvertPublishLost(r) ==
  /\ req[r].pc = "conv_publish"
  /\ req' = [req EXCEPT ![r].pc = "conv_commit"]
  /\ UNCHANGED <<carts, cart_items, rowLock, adds, added, inTx, orderRequested>>

\* orderRequestedTopic.publishMessage, before the COMMIT
ConvertPublish(r) ==
  /\ req[r].pc = "conv_publish"
  /\ orderRequested' = Append(orderRequested, OrderRequestedEvent(r))
  /\ req' = [req EXCEPT ![r].pc = "conv_commit"]
  /\ UNCHANGED <<carts, cart_items, rowLock, adds, added, inTx>>

\* COMMIT: the lock becomes visible and the row is released
ConvertCommit(r) ==
  /\ req[r].pc = "conv_commit"
  /\ carts' = [carts EXCEPT ![req[r].cart].cart_locked = TRUE]
  /\ rowLock' = [rowLock EXCEPT ![req[r].cart] = 0]
  /\ req' = [req EXCEPT ![r] = Respond(r, 200)]
  /\ inTx' = [inTx EXCEPT ![r] = FALSE]
  /\ UNCHANGED <<cart_items, adds, added, orderRequested>>

\* The publish or the COMMIT throws, or the process dies with the
\* transaction open: ROLLBACK (catch block), the row is released unchanged.
ConvertFail(r) ==
  /\ req[r].pc \in {"conv_publish", "conv_commit"}
  /\ rowLock' = [rowLock EXCEPT ![req[r].cart] = 0]
  /\ req' = [req EXCEPT ![r] = Respond(r, 500)]
  /\ inTx' = [inTx EXCEPT ![r] = FALSE]
  /\ UNCHANGED <<carts, cart_items, adds, added, orderRequested>>

\* ------------------------------------------------- the Cart service's requests
CartRequest(R) ==
  \E r \in R :
    \/ \E cust \in Customers, sku \in SKUs, qty \in Qtys : AddItemSelect(r, cust, sku, qty)
    \/ AddItemCommit(r)
    \/ \E cust \in Customers, sku \in SKUs : RemoveItemSelect(r, cust, sku)
    \/ RemoveItemCommit(r)
    \/ \E cust \in Customers : ConvertSelectCart(r, cust)
    \/ ConvertSelectItems(r)
    \/ ConvertLock(r)
    \/ ConvertPublish(r)
    \/ ConvertCommit(r)

\* ================================================== Inventory service
Workers == 1 .. MaxInFlight

\* INSERT INTO inventory ... VALUES ('LAP-001', 10, ..), ('PHN-001', 20, ..)
InitialInventory == [s \in SKUs |-> IF s = "LAP-001" THEN 10 ELSE 20]

IdleW == [pc |-> "idle", msg |-> 0, available |-> NoItems, todo |-> {}]

MsgId(topic, m) == <<topic, m>>

\* SELECT id FROM processed_messages WHERE message_id = $1 AND service_name = $2
isMessageProcessed(ledger, id) == \E row \in ledger : row.message_id = id

\* A ledger without the unique constraint: every call inserts its row
markMessageProcessedAgain(ledger, id, eventType, status) ==
  ledger \cup {[message_id |-> id, event_type |-> eventType, status |-> status]}

\* INSERT INTO processed_messages; UNIQUE(message_id, service_name) rejects a
\* second row and the catch block swallows the error.
markMessageProcessed(ledger, id, eventType, status) ==
  IF \E row \in ledger : row.message_id = id
    THEN ledger
    ELSE ledger \cup {[message_id |-> id, event_type |-> eventType, status |-> status]}

\* A ledger check that fails closed: a read that throws counts as
\* "already processed"
isMessageProcessedClosed(ledger, id, readOk) ==
  IF readOk THEN isMessageProcessed(ledger, id) ELSE TRUE

\* isMessageProcessed with its catch block: when the SELECT throws, the
\* error is logged and false is returned
isMessageProcessedOr(ledger, id, readOk) ==
  IF readOk THEN isMessageProcessed(ledger, id) ELSE FALSE

\* markMessageProcessed with its catch block: when the INSERT throws for
\* another reason than the unique constraint, the error is logged and the
\* ledger is as it was
markMessageProcessedOr(ledger, id, eventType, status, writeOk) ==
  IF writeOk THEN markMessageProcessed(ledger, id, eventType, status) ELSE ledger

Lines(items) == {s \in SKUs : items[s] > 0}

\* inventoryChecks.every(check => check.sufficient)
allSufficient(items, available) == \A s \in Lines(items) : available[s] >= items[s]

InitInv ==
  /\ inventory = InitialInventory
  /\ invLedger = {}
  /\ invW = [w \in Workers |-> IdleW]
  /\ invAcked = {}
  /\ canW = [w \in Workers |-> IdleW]
  /\ canAcked = {}
  /\ restocks = [m \in 1 .. MaxCancels |-> NoItems]
  /\ inventoryStatus = <<>>
  /\ stockAvailable = <<>>
  /\ stockRejected = <<>>

\* -------------------------------- orderRequestedSubscription.on('message')
\* A delivery that records the skip of a processed message in the ledger:
\* what InvReceive must not be
InvReceiveRecordsSkip(w, m) ==
  /\ invW[w].pc = "idle"
  /\ m \in 1 .. Len(orderRequested)
  /\ m \notin invAcked
  /\ IF isMessageProcessed(invLedger, MsgId("order-requested", m))
       THEN /\ invAcked' = invAcked \cup {m}
            /\ invLedger' = invLedger \cup {[message_id |-> MsgId("order-requested", m),
                                             event_type |-> "order-requested",
                                             status |-> "skipped"]}
            /\ UNCHANGED invW
       ELSE /\ invW' = [invW EXCEPT ![w] = [IdleW EXCEPT !.pc = "read", !.msg = m]]
            /\ UNCHANGED <<invAcked, invLedger>>
  /\ UNCHANGED <<inventory, canW, canAcked, restocks,
                 inventoryStatus, stockAvailable, stockRejected>>

\* A delivery of an unacknowledged message, and the isMessageProcessed check
InvReceive(w, m) ==
  /\ invW[w].pc = "idle"
  /\ m \in 1 .. Len(orderRequested)
  /\ m \notin invAcked
  /\ IF isMessageProcessed(invLedger, MsgId("order-requested", m))
       THEN /\ invAcked' = invAcked \cup {m}
            /\ UNCHANGED invW
       ELSE /\ invW' = [invW EXCEPT ![w] = [IdleW EXCEPT !.pc = "read", !.msg = m]]
            /\ UNCHANGED invAcked
  /\ UNCHANGED <<inventory, invLedger, canW, canAcked, restocks,
                 inventoryStatus, stockAvailable, stockRejected>>

\* the quantity of a SKU in the first n stock-available events
RECURSIVE Confirmed(_, _)
Confirmed(n, s) == IF n = 0 THEN 0 ELSE stockAvailable[n].items[s] + Confirmed(n - 1, s)

\* A check against what earlier confirmations have left of the stock: what
\* InvReadStock must not be
InvReadStockLeft(w) ==
  /\ invW[w].pc = "read"
  /\ invW' = [invW EXCEPT ![w].pc = "publish",
                          ![w].available = [s \in SKUs |->
                             IF s \in Lines(orderRequested[invW[w].msg].items)
                               THEN inventory[s] - Confirmed(Len(stockAvailable), s)
                               ELSE 0]]
  /\ UNCHANGED <<inventory, invLedger, invAcked, canW, canAcked, restocks,
                 inventoryStatus, stockAvailable, stockRejected>>

\* SELECT quantity FROM inventory WHERE product_sku = $1, for every item
\* (Promise.all of the reads, taken as one step); a line not asked for is 0
InvReadStock(w) ==
  /\ invW[w].pc = "read"
  /\ invW' = [invW EXCEPT ![w].pc = "publish",
                          ![w].available = [s \in SKUs |->
                             IF s \in Lines(orderRequested[invW[w].msg].items)
                               THEN inventory[s] ELSE 0]]
  /\ UNCHANGED <<inventory, invLedger, invAcked, canW, canAcked, restocks,
                 inventoryStatus, stockAvailable, stockRejected>>

\* A check that reserves what it confirms, taking the requested quantities
\* out of the stock with the stock-available event: what InvPublish must
\* not be
InvPublishReserves(w) ==
  /\ invW[w].pc = "publish"
  /\ LET data == orderRequested[invW[w].msg]
         ok == allSufficient(data.items, invW[w].available)
         ev == [cart_id |-> data.cart_id, customer_id |-> data.customer_id,
                items |-> data.items, available |-> invW[w].available,
                cause |-> invW[w].msg, priced |-> FALSE]
     IN /\ inventoryStatus' = Append(inventoryStatus,
                                [cart_id |-> data.cart_id,
                                 status |-> IF ok THEN "sufficient" ELSE "insufficient"])
        /\ IF ok
             THEN /\ stockAvailable' = Append(stockAvailable, ev)
                  /\ inventory' = [s \in SKUs |-> inventory[s] - data.items[s]]
                  /\ UNCHANGED stockRejected
             ELSE /\ stockRejected' = Append(stockRejected, ev)
                  /\ UNCHANGED <<stockAvailable, inventory>>
  /\ invW' = [invW EXCEPT ![w].pc = "mark"]
  /\ UNCHANGED <<invLedger, invAcked, canW, canAcked, restocks>>

\* The inventory-status event, then stock-available or stock.rejected.
\* `cause` records the delivered message a published event answers.
InvPublish(w) ==
  /\ invW[w].pc = "publish"
  /\ LET data == orderRequested[invW[w].msg]
         ok == allSufficient(data.items, invW[w].available)
         ev == [cart_id |-> data.cart_id, customer_id |-> data.customer_id,
                items |-> data.items, available |-> invW[w].available,
                cause |-> invW[w].msg, priced |-> FALSE]
     IN /\ inventoryStatus' = Append(inventoryStatus,
                                [cart_id |-> data.cart_id,
                                 status |-> IF ok THEN "sufficient" ELSE "insufficient"])
        /\ IF ok
             THEN /\ stockAvailable' = Append(stockAvailable, ev)
                  /\ UNCHANGED stockRejected
             ELSE /\ stockRejected' = Append(stockRejected, ev)
                  /\ UNCHANGED stockAvailable
  /\ invW' = [invW EXCEPT ![w].pc = "mark"]
  /\ UNCHANGED <<inventory, invLedger, invAcked, canW, canAcked, restocks>>

\* markMessageProcessed(message.id, 'order-requested', 'success'); message.ack()
InvMarkSuccess(w) ==
  /\ invW[w].pc = "mark"
  /\ invLedger' = markMessageProcessed(invLedger, MsgId("order-requested", invW[w].msg),
                                       "order-requested", "success")
  /\ invAcked' = invAcked \cup {invW[w].msg}
  /\ invW' = [invW EXCEPT ![w] = IdleW]
  /\ UNCHANGED <<inventory, canW, canAcked, restocks,
                 inventoryStatus, stockAvailable, stockRejected>>

\* A query or a publish throws: the catch block is entered
InvFail(w) ==
  /\ invW[w].pc \in {"read", "publish"}
  /\ invW' = [invW EXCEPT ![w].pc = "failed"]
  /\ UNCHANGED <<inventory, invLedger, invAcked, canW, canAcked, restocks,
                 inventoryStatus, stockAvailable, stockRejected>>

\* A catch block that records the failure and acknowledges the message:
\* what InvMarkFailed must not be
InvMarkFailedAcks(w) ==
  /\ invW[w].pc = "failed"
  /\ invLedger' = markMessageProcessed(invLedger, MsgId("order-requested", invW[w].msg),
                                       "order-requested", "failed")
  /\ invAcked' = invAcked \cup {invW[w].msg}
  /\ invW' = [invW EXCEPT ![w] = IdleW]
  /\ UNCHANGED <<inventory, canW, canAcked, restocks,
                 inventoryStatus, stockAvailable, stockRejected>>

\* markMessageProcessed(message.id, 'order-requested', 'failed', ..); message.nack()
InvMarkFailed(w) ==
  /\ invW[w].pc = "failed"
  /\ invLedger' = markMessageProcessed(invLedger, MsgId("order-requested", invW[w].msg),
                                       "order-requested", "failed")
  /\ invW' = [invW EXCEPT ![w] = IdleW]
  /\ UNCHANGED <<inventory, invAcked, canW, canAcked, restocks,
                 inventoryStatus, stockAvailable, stockRejected>>

\* -------------------------------- orderCancelledSubscription.on('message')
CanReceive(w, m) ==
  /\ canW[w].pc = "idle"
  /\ m \in 1 .. Len(orderCancelled)
  /\ m \notin canAcked
  /\ IF isMessageProcessed(invLedger, MsgId("order-cancelled", m))
       THEN /\ canAcked' = canAcked \cup {m}
            /\ UNCHANGED canW
       ELSE /\ canW' = [canW EXCEPT ![w] = [IdleW EXCEPT !.pc = "restock", !.msg = m,
                                             !.todo = Lines(orderCancelled[m].items)]]
            /\ UNCHANGED canAcked
  /\ UNCHANGED <<inventory, invLedger, invW, invAcked, restocks,
                 inventoryStatus, stockAvailable, stockRejected>>

\* the item the for loop is at: items are taken in the order of their SKU
NextItem(todo) == IF "LAP-001" \in todo THEN "LAP-001" ELSE "PHN-001"

\* A restock that adds one unit per item whatever the item's quantity: what
\* CanRestock must not be
CanRestockUnit(w) ==
  /\ canW[w].pc = "restock"
  /\ canW[w].todo # {}
  /\ LET s == NextItem(canW[w].todo)
         m == canW[w].msg
     IN /\ inventory' = [inventory EXCEPT ![s] = @ + 1]
        /\ restocks' = [restocks EXCEPT ![m][s] = @ + 1]
        /\ canW' = [canW EXCEPT ![w].todo = @ \ {s}]
  /\ UNCHANGED <<invLedger, invW, invAcked, canAcked,
                 inventoryStatus, stockAvailable, stockRejected>>

\* A restock whose UPDATE subtracts the stored quantity from the event's:
\* what CanRestock must not be
CanRestockReversed(w) ==
  /\ canW[w].pc = "restock"
  /\ canW[w].todo # {}
  /\ LET s == NextItem(canW[w].todo)
         m == canW[w].msg
     IN /\ inventory' = [inventory EXCEPT ![s] = orderCancelled[m].items[s] - @]
        /\ restocks' = [restocks EXCEPT ![m][s] = @ + 1]
        /\ canW' = [canW EXCEPT ![w].todo = @ \ {s}]
  /\ UNCHANGED <<invLedger, invW, invAcked, canAcked,
                 inventoryStatus, stockAvailable, stockRejected>>

\* UPDATE inventory SET quantity = quantity + $1 WHERE product_sku = $2,
\* one autocommitted statement per item of the event
CanRestock(w) ==
  /\ canW[w].pc = "restock"
  /\ canW[w].todo # {}
  /\ LET s == NextItem(canW[w].todo)
         m == canW[w].msg
     IN /\ inventory' = [inventory EXCEPT ![s] = @ + orderCancelled[m].items[s]]
        /\ restocks' = [restocks EXCEPT ![m][s] = @ + 1]
        /\ canW' = [canW EXCEPT ![w].todo = @ \ {s}]
  /\ UNCHANGED <<invLedger, invW, invAcked, canAcked,
                 inventoryStatus, stockAvailable, stockRejected>>

\* markMessageProcessed(message.id, 'order-cancelled', 'success'); message.ack()
CanMarkSuccess(w) ==
  /\ canW[w].pc = "restock"
  /\ canW[w].todo = {}
  /\ invLedger' = markMessageProcessed(invLedger, MsgId("order-cancelled", canW[w].msg),
                                       "order-cancelled", "success")
  /\ canAcked' = canAcked \cup {canW[w].msg}
  /\ canW' = [canW EXCEPT ![w] = IdleW]
  /\ UNCHANGED <<inventory, invW, invAcked, restocks,
                 inventoryStatus, stockAvailable, stockRejected>>

\* An UPDATE throws: the catch block is entered
CanFail(w) ==
  /\ canW[w].pc = "restock"
  /\ canW[w].todo # {}
  /\ canW' = [canW EXCEPT ![w].pc = "failed"]
  /\ UNCHANGED <<inventory, invLedger, invW, invAcked, canAcked, restocks,
                 inventoryStatus, stockAvailable, stockRejected>>

\* markMessageProcessed(message.id, 'order-cancelled', 'failed', ..); message.nack()
CanMarkFailed(w) ==
  /\ canW[w].pc = "failed"
  /\ invLedger' = markMessageProcessed(invLedger, MsgId("order-cancelled", canW[w].msg),
                                       "order-cancelled", "failed")
  /\ canW' = [canW EXCEPT ![w] = IdleW]
  /\ UNCHANGED <<inventory, invW, invAcked, canAcked, restocks,
                 inventoryStatus, stockAvailable, stockRejected>>

\* -------------------------------- PUT /inventory/:sku
\* UPDATE inventory SET quantity = $1 WHERE product_sku = $2, one
\* autocommitted statement; the body's quantity is not validated. (The
\* low-stock message goes to inventory.status.updated, a topic no service
\* of the system subscribes to.)
PutInventory(s, q) ==
  /\ inventory' = [inventory EXCEPT ![s] = q]
  /\ UNCHANGED <<invLedger, invW, invAcked, canW, canAcked, restocks,
                 inventoryStatus, stockAvailable, stockRejected>>

\* -------------------------------- deliveries during which the ledger's
\* store fails
\* A delivery whose isMessageProcessed SELECT throws
InvReceiveUnread(w, m) ==
  /\ invW[w].pc = "idle"
  /\ m \in 1 .. Len(orderRequested)
  /\ m \notin invAcked
  /\ IF isMessageProcessedOr(invLedger, MsgId("order-requested", m), FALSE)
       THEN /\ invAcked' = invAcked \cup {m}
            /\ UNCHANGED invW
       ELSE /\ invW' = [invW EXCEPT ![w] = [IdleW EXCEPT !.pc = "read", !.msg = m]]
            /\ UNCHANGED invAcked
  /\ UNCHANGED <<inventory, invLedger, canW, canAcked, restocks,
                 inventoryStatus, stockAvailable, stockRejected>>

\* markMessageProcessed(.., 'success') whose INSERT throws; message.ack()
InvMarkSuccessUnwritten(w) ==
  /\ invW[w].pc = "mark"
  /\ invLedger' = markMessageProcessedOr(invLedger, MsgId("order-requested", invW[w].msg),
                                         "order-requested", "success", FALSE)
  /\ invAcked' = invAcked \cup {invW[w].msg}
  /\ invW' = [invW EXCEPT ![w] = IdleW]
  /\ UNCHANGED <<inventory, canW, canAcked, restocks,
                 inventoryStatus, stockAvailable, stockRejected>>

\* markMessageProcessed(.., 'failed', ..) whose INSERT throws; message.nack()
InvMarkFailedUnwritten(w) ==
  /\ invW[w].pc = "failed"
  /\ invLedger' = markMessageProcessedOr(invLedger, MsgId("order-requested", invW[w].msg),
                                         "order-requested", "failed", FALSE)
  /\ invW' = [invW EXCEPT ![w] = IdleW]
  /\ UNCHANGED <<inventory, invAcked, canW, canAcked, restocks,
                 inventoryStatus, stockAvailable, stockRejected>>

StockCheckLedgerFailure(W) ==
  \E w \in W :
    \/ \E m \in 1 .. Len(orderRequested) : InvReceiveUnread(w, m)
    \/ InvMarkSuccessUnwritten(w)
    \/ InvMarkFailedUnwritten(w)

\* An order.cancelled message arrives on the topic for the order made from
\* stock-available event a, with that order's items (interface
\* OrderCancelledEvent); an order is cancelled at most once.
OrderCancelledArrives(a) ==
  /\ a \in 1 .. Len(stockAvailable)
  /\ Len(orderCancelled) < MaxCancels
  /\ \A i \in 1 .. Len(orderCancelled) : orderCancelled[i].order_id # a
  /\ orderCancelled' = Append(orderCancelled,
        [order_id |-> a, customer_id |-> stockAvailable[a].customer_id,
         cart_id |-> stockAvailable[a].cart_id, items |-> stockAvailable[a].items])

StockCheckHandler(W) ==
  \E w \in W :
    \/ \E m \in 1 .. Len(orderRequested) : InvReceive(w, m)
    \/ InvReadStock(w)
    \/ InvPublish(w)
    \/ InvMarkSuccess(w)

StockCheckFailure(W) ==
  \E w \in W :
    \/ InvFail(w)
    \/ InvMarkFailed(w)

RestockHandler(W) ==
  \E w \in W :
    \/ \E m \in 1 .. Len(orderCancelled) : CanReceive(w, m)
    \/ CanRestock(w)
    \/ CanMarkSuccess(w)

RestockFailure(W) ==
  \E w \in W :
    \/ CanFail(w)
    \/ CanMarkFailed(w)

\* ================================================== Order service
\* CREATE TABLE order_items (id, order_id, product_sku, quantity, price)
OrderItemsColumns == {"id", "order_id", "product_sku", "quantity", "price"}

\* CREATE TABLE carts (id, customer_id, cart_locked, status, created_at, updated_at)
CartsColumns == {"id", "customer_id", "cart_locked", "status", "created_at", "updated_at"}

\* products.price of the sample products, in cents
Price(s) == IF s = "LAP-001" THEN 99999 ELSE 69999

\* the total of an order whose items carry no price (undefined * quantity)
NaN == -1

\* data.items.reduce((sum, item) => sum + (item.price * item.quantity), 0):
\* an item without a price makes the sum NaN
initialTotal(ev) ==
  IF ev.priced
    THEN ev.items["LAP-001"] * Price("LAP-001") + ev.items["PHN-001"] * Price("PHN-001")
    ELSE NaN

IdleO == [pc |-> "idle", msg |-> 0, order |-> 0, todo |-> {}]

IdleOReq == [pc |-> "idle", order |-> 0, res |-> 0]

InitOrd ==
  /\ orderCancelled = <<>>
  /\ orders = <<>>
  /\ order_items = <<>>
  /\ ordLock = {}
  /\ ordLedger = {}
  /\ ordW = [w \in Workers |-> IdleO]
  /\ ordAcked = {}
  /\ oreq = [r \in Reqs |-> IdleOReq]
  /\ orderCreated = <<>>
  /\ cartRejAcked = {}
  /\ cartAvailAcked = {}

\* -------------------------------- stockAvailableSubscription.on('message')
OrdReceive(w, m) ==
  /\ ordW[w].pc = "idle"
  /\ m \in 1 .. Len(stockAvailable)
  /\ m \notin ordAcked
  /\ IF isMessageProcessed(ordLedger, MsgId("stock-available", m))
       THEN /\ ordAcked' = ordAcked \cup {m}
            /\ UNCHANGED ordW
       ELSE /\ ordW' = [ordW EXCEPT ![w] = [IdleO EXCEPT !.pc = "insert", !.msg = m]]
            /\ UNCHANGED ordAcked
  /\ UNCHANGED <<orders, order_items, ordLock, ordLedger, oreq, orderCreated>>

\* INSERT INTO orders (customer_id, cart_id, status, total_amount)
\* VALUES ($1, $2, 'created', initialTotal), autocommitted
OrdInsertOrder(w) ==
  /\ ordW[w].pc = "insert"
  /\ Len(orders) < MaxOrders
  /\ LET ev == stockAvailable[ordW[w].msg] IN
       /\ orders' = Append(orders, [customer_id |-> ev.customer_id, cart_id |-> ev.cart_id,
                                    status |-> "created", total_amount |-> initialTotal(ev)])
       /\ order_items' = Append(order_items, NoItems)
       /\ ordW' = [ordW EXCEPT ![w].pc = "items", ![w].order = Len(orders) + 1,
                               ![w].todo = Lines(ev.items)]
  /\ UNCHANGED <<ordLock, ordLedger, ordAcked, oreq, orderCreated>>

\* INSERT INTO order_items (order_id, product_sku, quantity, price), one
\* autocommitted statement per item; price is NOT NULL, and an item
\* without a price is sent as NULL: the statement throws.
OrdInsertItem(w) ==
  /\ ordW[w].pc = "items"
  /\ ordW[w].todo # {}
  /\ LET ev == stockAvailable[ordW[w].msg]
         s == NextItem(ordW[w].todo)
     IN IF ev.priced
          THEN /\ order_items' = [order_items EXCEPT ![ordW[w].order][s] = ev.items[s]]
               /\ ordW' = [ordW EXCEPT ![w].todo = @ \ {s}]
          ELSE /\ ordW' = [ordW EXCEPT ![w].pc = "failed"]
               /\ UNCHANGED order_items
  /\ UNCHANGED <<orders, ordLock, ordLedger, ordAcked, oreq, orderCreated>>

\* orderCreatedTopic.publishMessage
OrdPublish(w) ==
  /\ ordW[w].pc = "items"
  /\ ordW[w].todo = {}
  /\ LET ev == stockAvailable[ordW[w].msg] IN
       orderCreated' = Append(orderCreated,
          [order_id |-> ordW[w].order, customer_id |-> ev.customer_id,
           cart_id |-> ev.cart_id, total_amount |-> initialTotal(ev), items |-> ev.items])
  /\ ordW' = [ordW EXCEPT ![w].pc = "mark"]
  /\ UNCHANGED <<orders, order_items, ordLock, ordLedger, ordAcked, oreq>>

\* markMessageProcessed(message.id, 'stock-available', 'success'); message.ack()
OrdMarkSuccess(w) ==
  /\ ordW[w].pc = "mark"
  /\ ordLedger' = markMessageProcessed(ordLedger, MsgId("stock-available", ordW[w].msg),
                                       "stock-available", "success")
  /\ ordAcked' = ordAcked \cup {ordW[w].msg}
  /\ ordW' = [ordW EXCEPT ![w] = IdleO]
  /\ UNCHANGED <<orders, order_items, ordLock, oreq, orderCreated>>

\* markMessageProcessed(message.id, 'stock-available', 'failed', ..); message.nack()
OrdMarkFailed(w) ==
  /\ ordW[w].pc = "failed"
  /\ ordLedger' = markMessageProcessed(ordLedger, MsgId("stock-available", ordW[w].msg),
                                       "stock-available", "failed")
  /\ ordW' = [ordW EXCEPT ![w] = IdleO]
  /\ UNCHANGED <<orders, order_items, ordLock, ordAcked, oreq, orderCreated>>

\* A delivery whose isMessageProcessed SELECT throws
OrdReceiveUnread(w, m) ==
  /\ ordW[w].pc = "idle"
  /\ m \in 1 .. Len(stockAvailable)
  /\ m \notin ordAcked
  /\ IF isMessageProcessedOr(ordLedger, MsgId("stock-available", m), FALSE)
       THEN /\ ordAcked' = ordAcked \cup {m}
            /\ UNCHANGED ordW
       ELSE /\ ordW' = [ordW EXCEPT ![w] = [IdleO EXCEPT !.pc = "insert", !.msg = m]]
            /\ UNCHANGED ordAcked
  /\ UNCHANGED <<orders, order_items, ordLock, ordLedger, oreq, orderCreated>>

\* markMessageProcessed(.., 'success') whose INSERT throws; message.ack()
OrdMarkSuccessUnwritten(w) ==
  /\ ordW[w].pc = "mark"
  /\ ordLedger' = markMessageProcessedOr(ordLedger, MsgId("stock-available", ordW[w].msg),
                                         "stock-available", "success", FALSE)
  /\ ordAcked' = ordAcked \cup {ordW[w].msg}
  /\ ordW' = [ordW EXCEPT ![w] = IdleO]
  /\ UNCHANGED <<orders, order_items, ordLock, oreq, orderCreated>>

\* markMessageProcessed(.., 'failed', ..) whose INSERT throws; message.nack()
OrdMarkFailedUnwritten(w) ==
  /\ ordW[w].pc = "failed"
  /\ ordLedger' = markMessageProcessedOr(ordLedger, MsgId("stock-available", ordW[w].msg),
                                         "stock-available", "failed", FALSE)
  /\ ordW' = [ordW EXCEPT ![w] = IdleO]
  /\ UNCHANGED <<orders, order_items, ordLock, ordAcked, oreq, orderCreated>>

OrderLedgerFailure(W) ==
  \E w \in W :
    \/ \E m \in 1 .. Len(stockAvailable) : OrdReceiveUnread(w, m)
    \/ OrdMarkSuccessUnwritten(w)
    \/ OrdMarkFailedUnwritten(w)

OrderHandler(W) ==
  \E w \in W :
    \/ \E m \in 1 .. Len(stockAvailable) : OrdReceive(w, m)
    \/ OrdInsertOrder(w)
    \/ OrdInsertItem(w)
    \/ OrdPublish(w)
    \/ OrdMarkSuccess(w)
    \/ OrdMarkFailed(w)

\* A lookup whose empty result is not tested: reading the status of the
\* missing row throws and the catch block answers 500. What CancelSelect
\* must not be
CancelSelectUntested(r, o) ==
  /\ oreq[r].pc = "idle"
  /\ IF o > Len(orders)
       THEN oreq' = [oreq EXCEPT ![r] = [IdleOReq EXCEPT !.order = o, !.res = 500]]
       ELSE IF orders[o].status = "cancelled"
         THEN oreq' = [oreq EXCEPT ![r] = [IdleOReq EXCEPT !.order = o, !.res = 400]]
         ELSE oreq' = [oreq EXCEPT ![r] = [IdleOReq EXCEPT !.pc = "cancel_update",
                                                            !.order = o]]
  /\ UNCHANGED <<orders, order_items, ordLock, ordLedger, ordW, ordAcked, orderCreated,
                 orderCancelled, carts>>

\* -------------------------------- PUT /orders/:orderId/cancel
\* BEGIN, SELECT * FROM orders WHERE id = $1: 404 when there is no row, 400
\* when its status is 'cancelled' (both after ROLLBACK); then the SELECT of
\* the order's items.
CancelSelect(r, o) ==
  /\ oreq[r].pc = "idle"
  /\ IF o > Len(orders)
       THEN oreq' = [oreq EXCEPT ![r] = [IdleOReq EXCEPT !.order = o, !.res = 404]]
       ELSE IF orders[o].status = "cancelled"
         THEN oreq' = [oreq EXCEPT ![r] = [IdleOReq EXCEPT !.order = o, !.res = 400]]
         ELSE oreq' = [oreq EXCEPT ![r] = [IdleOReq EXCEPT !.pc = "cancel_update",
                                                            !.order = o]]
  /\ UNCHANGED <<orders, order_items, ordLock, ordLedger, ordW, ordAcked, orderCreated,
                 orderCancelled, carts>>

\* UPDATE orders SET status = 'cancelled' WHERE id = $2: takes the row,
\* inside the transaction
CancelUpdate(r) ==
  /\ oreq[r].pc = "cancel_update"
  /\ oreq[r].order \notin ordLock
  /\ ordLock' = ordLock \cup {oreq[r].order}
  /\ oreq' = [oreq EXCEPT ![r].pc = "cancel_cart"]
  /\ UNCHANGED <<orders, order_items, ordLedger, ordW, ordAcked, orderCreated,
                 orderCancelled, carts>>

\* SELECT cart_id FROM order_items WHERE order_id = $1 LIMIT 1, then (when
\* the order has item rows) UPDATE carts SET is_locked = FALSE, COMMIT and
\* the publish of order.cancelled. A statement that names a column its
\* table does not have throws: ROLLBACK in the catch block, 500.
CancelFinish(r) ==
  /\ oreq[r].pc = "cancel_cart"
  /\ LET o == oreq[r].order IN
       IF \/ "cart_id" \notin OrderItemsColumns
          \/ (order_items[o] # NoItems /\ "is_locked" \notin CartsColumns)
         THEN /\ oreq' = [oreq EXCEPT ![r] = [IdleOReq EXCEPT !.order = o, !.res = 500]]
              /\ UNCHANGED <<orders, orderCancelled>>
         ELSE /\ orders' = [orders EXCEPT ![o].status = "cancelled"]
              /\ Len(orderCancelled) < MaxCancels
              /\ orderCancelled' = Append(orderCancelled,
                   [order_id |-> o, customer_id |-> orders[o].customer_id,
                    cart_id |-> orders[o].cart_id, items |-> order_items[o]])
              /\ oreq' = [oreq EXCEPT ![r] = [IdleOReq EXCEPT !.order = o, !.res = 200]]
  /\ ordLock' = ordLock \ {oreq[r].order}
  /\ UNCHANGED <<order_items, ordLedger, ordW, ordAcked, orderCreated, carts>>

CancelRequest(R) ==
  \E r \in R :
    \/ \E o \in 1 .. Len(orders) + 1 : CancelSelect(r, o)
    \/ CancelUpdate(r)
    \/ CancelFinish(r)

\* ================================================== Notification service
MaxNotifications == 2   \* rows of the notifications table

Channels == {"email", "push"}
NotTopics == {"order.created", "order.cancelled", "stock.rejected"}

\* the messages published to a topic the Notification service subscribes to
Published(topic) ==
  CASE topic = "order.created" -> orderCreated
    [] topic = "order.cancelled" -> orderCancelled
    [] topic = "stock.rejected" -> stockRejected

IdleN == [pc |-> "idle", topic |-> "none", msg |-> 0, tried |-> {}]

InitNot ==
  /\ notifications = <<>>
  /\ notW = [w \in Workers |-> IdleN]
  /\ notAcked = {}

\* <subscription>.on('message'): JSON.parse, the three handlers differ in
\* the message text only; the email INSERT comes first
NotReceive(w, topic, m) ==
  /\ notW[w].pc = "idle"
  /\ m \in 1 .. Len(Published(topic))
  /\ <<topic, m>> \notin notAcked
  /\ notW' = [notW EXCEPT ![w] = [IdleN EXCEPT !.pc = "email", !.topic = topic, !.msg = m]]
  /\ UNCHANGED <<notifications, notAcked>>

\* INSERT INTO notifications (recipient, message, channel, status) VALUES
\* (.., .., 'email' | 'push', 'pending'), one autocommitted statement; the
\* push INSERT follows the email INSERT, message.ack() the push INSERT
NotInsert(w) ==
  /\ notW[w].pc \in Channels
  /\ Len(notifications) < MaxNotifications
  /\ notifications' = Append(notifications,
        [topic |-> notW[w].topic, msg |-> notW[w].msg,
         channel |-> notW[w].pc, status |-> "pending"])
  /\ notW' = [notW EXCEPT ![w].tried = @ \cup {notW[w].pc},
                          ![w].pc = IF @ = "email" THEN "push" ELSE "ack"]
  /\ UNCHANGED notAcked

\* message.ack()
NotAck(w) ==
  /\ notW[w].pc = "ack"
  /\ notAcked' = notAcked \cup {<<notW[w].topic, notW[w].msg>>}
  /\ notW' = [notW EXCEPT ![w] = IdleN]
  /\ UNCHANGED notifications

\* The INSERT throws: the catch block is entered, with the statements after
\* the INSERT not executed
NotInsertFails(w) ==
  /\ notW[w].pc \in Channels
  /\ notW' = [notW EXCEPT ![w].tried = @ \cup {notW[w].pc}, ![w].pc = "failed"]
  /\ UNCHANGED <<notifications, notAcked>>

\* A catch block that acknowledges the message it could not handle: what
\* NotNack must not be
NotNackAcks(w) ==
  /\ notW[w].pc = "failed"
  /\ notAcked' = notAcked \cup {<<notW[w].topic, notW[w].msg>>}
  /\ notW' = [notW EXCEPT ![w] = IdleN]
  /\ UNCHANGED notifications

\* catch: console.error, message.nack()
NotNack(w) ==
  /\ notW[w].pc = "failed"
  /\ notW' = [notW EXCEPT ![w] = IdleN]
  /\ UNCHANGED <<notifications, notAcked>>

NotifyHandler(W) ==
  \E w \in W :
    \/ \E topic \in NotTopics : \E m \in 1 .. Len(Published(topic)) : NotReceive(w, topic, m)
    \/ NotInsert(w)
    \/ NotAck(w)

NotifyFailure(W) ==
  \E w \in W :
    \/ NotInsertFails(w)
    \/ NotNack(w)

\* ================================================== Cart service subscriptions
\* A rejection handler that also unlocks the cart: what CartOnStockRejected
\* must not be
CartOnStockRejectedUnlocks(m) ==
  /\ m \in 1 .. Len(stockRejected)
  /\ m \notin cartRejAcked
  /\ carts' = [c \in 1 .. Len(carts) |->
                 IF c = stockRejected[m].cart_id
                   THEN [carts[c] EXCEPT !.status = "stock-unavailable",
                                         !.cart_locked = FALSE]
                   ELSE carts[c]]
  /\ cartRejAcked' = cartRejAcked \cup {m}
  /\ UNCHANGED <<cart_items, rowLock, req, adds, added, inTx, orderRequested, cartAvailAcked, notVars>>

\* A rejection handler that also deletes the cart's items: what
\* CartOnStockRejected must not be
CartOnStockRejectedEmpties(m) ==
  /\ m \in 1 .. Len(stockRejected)
  /\ m \notin cartRejAcked
  /\ carts' = [c \in 1 .. Len(carts) |->
                 IF c = stockRejected[m].cart_id
                   THEN [carts[c] EXCEPT !.status = "stock-unavailable"]
                   ELSE carts[c]]
  /\ cart_items' = [cart_items EXCEPT ![stockRejected[m].cart_id] = NoItems]
  /\ cartRejAcked' = cartRejAcked \cup {m}
  /\ UNCHANGED <<rowLock, req, adds, added, inTx, orderRequested, cartAvailAcked, notVars>>

\* stockRejectedSubscription.on('message'):
\* UPDATE carts SET status = 'stock-unavailable' WHERE id = $2; message.ack()
CartOnStockRejected(m) ==
  /\ m \in 1 .. Len(stockRejected)
  /\ m \notin cartRejAcked
  /\ carts' = [c \in 1 .. Len(carts) |->
                 IF c = stockRejected[m].cart_id
                   THEN [carts[c] EXCEPT !.status = "stock-unavailable"]
                   ELSE carts[c]]
  /\ cartRejAcked' = cartRejAcked \cup {m}
  /\ UNCHANGED <<cart_items, rowLock, req, adds, added, inTx, orderRequested, cartAvailAcked, notVars>>

\* stockAvailableSubscription.on('message'):
\* UPDATE orders SET status = 'confirmed' WHERE cart_id = $2; message.ack().
\* The UPDATE waits for a transaction that holds one of the rows.
CartOnStockAvailable(m) ==
  /\ m \in 1 .. Len(stockAvailable)
  /\ m \notin cartAvailAcked
  /\ \A o \in ordLock : orders[o].cart_id # stockAvailable[m].cart_id
  /\ orders' = [o \in 1 .. Len(orders) |->
                  IF orders[o].cart_id = stockAvailable[m].cart_id
                    THEN [orders[o] EXCEPT !.status = "confirmed"]
                    ELSE orders[o]]
  /\ cartAvailAcked' = cartAvailAcked \cup {m}
  /\ UNCHANGED <<order_items, ordLock, ordLedger, ordW, ordAcked, oreq, orderCreated,
                 cartRejAcked, notVars>>

\* A stock-available message arrives on the topic for a converted cart:
\* as the Inventory service publishes it (items without a price) or as the
\* Order service's StockAvailableEvent declares it (items with a price).
StockAvailableArrives(c, priced) ==
  /\ c \in 1 .. Len(carts)
  /\ carts[c].cart_locked
  /\ Len(stockAvailable) < MaxAvail
  /\ stockAvailable' = Append(stockAvailable,
       [cart_id |-> c, customer_id |-> carts[c].customer_id, items |-> cart_items[c],
        available |-> inventory, cause |-> c, priced |-> priced])

\* ================================================== specifications
\* The services as started, nothing requested or published yet
InitSystem == InitCart /\ InitInv /\ InitOrd /\ InitNot

\* ---- SpecCart: the Cart service's requests, MaxReqs at a time, with
\* failing publishes and commits.
NextCart ==
  \/ (CartRequest(Reqs) /\ UNCHANGED <<invVars, orderCancelled, ordVars, subVars>>)
  \/ (\E r \in Reqs : ConvertFail(r)) /\ UNCHANGED <<invVars, orderCancelled, ordVars, subVars>>

SpecCart == InitSystem /\ [][NextCart]_vars

\* ---- SpecCartOk: the Cart service's requests when nothing fails
NextCartOk == CartRequest(Reqs) /\ UNCHANGED <<invVars, orderCancelled, ordVars, subVars>>

SpecCartOk == InitSystem /\ [][NextCartOk]_vars

\* ---- SpecAdd: add_item requests only, MaxReqs at a time, nothing failing
AddRequest(R) ==
  \E r \in R :
    \/ \E cust \in Customers, sku \in SKUs, qty \in Qtys : AddItemSelect(r, cust, sku, qty)
    \/ AddItemCommit(r)

NextAdd == AddRequest(Reqs) /\ UNCHANGED <<invVars, orderCancelled, ordVars, subVars>>

SpecAdd == InitSystem /\ [][NextAdd]_vars

\* A service studied alone starts with carts the Cart service has
\* converted: locked, their events on the order-requested topic.
ItemChoices == {[s \in SKUs |-> IF s = "LAP-001" THEN 2 ELSE 0],
                [s \in SKUs |-> IF s = "LAP-001" THEN 20 ELSE 0],
                [s \in SKUs |-> 2]}

\* the quantity of a SKU over the carts 1 .. n
RECURSIVE Stored(_, _, _)
Stored(items, n, s) == IF n = 0 THEN 0 ELSE items[n][s] + Stored(items, n - 1, s)

InitConverted ==
  /\ \E n \in 1 .. MaxConverted : \E choice \in [1 .. n -> ItemChoices] :
       /\ carts = [c \in 1 .. n |-> [customer_id |-> "john", cart_locked |-> TRUE,
                                      status |-> "active"]]
       /\ cart_items = [c \in CartIds |-> IF c <= n THEN choice[c] ELSE NoItems]
       /\ orderRequested = [c \in 1 .. n |-> [cart_id |-> c, customer_id |-> "john",
                                              items |-> choice[c]]]
  /\ rowLock = [c \in CartIds |-> 0]
  /\ req = [r \in Reqs |-> IdleReq]
  /\ adds = 0
  /\ added = [cust \in Customers |-> [s \in SKUs |-> Stored(cart_items, MaxCarts, s)]]
  /\ inTx = [r \in Reqs |-> FALSE]
  /\ InitInv
  /\ InitOrd
  /\ InitNot

invRest == <<inventory, invLedger, invW, invAcked, canW, canAcked, restocks,
             inventoryStatus, stockRejected>>
cartRest == <<cart_items, rowLock, req, adds, added, inTx, orderRequested>>

\* ---- SpecInv: the Inventory service, MaxInFlight deliveries of each
\* subscription at a time, with failing statements and publishes.
NextInv ==
  \/ (StockCheckHandler(Workers) /\ UNCHANGED <<cartVars, orderCancelled, ordVars, subVars>>)
  \/ (StockCheckFailure(Workers) /\ UNCHANGED <<cartVars, orderCancelled, ordVars, subVars>>)
  \/ (RestockHandler(Workers) /\ UNCHANGED <<cartVars, orderCancelled, ordVars, subVars>>)
  \/ (RestockFailure(Workers) /\ UNCHANGED <<cartVars, orderCancelled, ordVars, subVars>>)
  \/ (\E a \in 1 .. Len(stockAvailable) : OrderCancelledArrives(a))
        /\ UNCHANGED <<cartVars, invVars, ordVars, subVars>>

SpecInv == InitConverted /\ [][NextInv]_vars

\* ---- SpecStock: the order-requested handler, MaxInFlight deliveries at a
\* time, while the stock is being set through PUT /inventory/:sku.
PutQtys == {-1, 0, 30}

NextStock ==
  \/ (StockCheckHandler(Workers) /\ UNCHANGED <<cartVars, orderCancelled, ordVars, subVars>>)
  \/ (\E s \in SKUs, q \in PutQtys : PutInventory(s, q))
        /\ UNCHANGED <<cartVars, orderCancelled, ordVars, subVars>>

SpecStock == InitConverted /\ [][NextStock]_vars

\* ---- SpecRejected: the order-requested handler, MaxInFlight deliveries at
\* a time with failing statements and publishes, and the Cart service's
\* subscriber of stock.rejected.
NextRejected ==
  \/ (StockCheckHandler(Workers) /\ UNCHANGED <<cartVars, orderCancelled, ordVars, subVars>>)
  \/ (StockCheckFailure(Workers) /\ UNCHANGED <<cartVars, orderCancelled, ordVars, subVars>>)
  \/ (\E m \in 1 .. Len(stockRejected) : CartOnStockRejected(m))
        /\ UNCHANGED <<invVars, orderCancelled, ordVars>>

SpecRejected == InitConverted /\ [][NextRejected]_vars

\* one request or one delivery at a time
One == {1}

\* ---- SpecNotify: the Notification service's three subscriptions, one
\* delivery at a time, with failing INSERTs, fed by the order-requested
\* handler, the Order service's handler and arriving cancellations.
NextNotify ==
  \/ (StockCheckHandler(One) /\ UNCHANGED <<cartVars, orderCancelled, ordVars, subVars>>)
  \/ (\E c \in CartIds : StockAvailableArrives(c, TRUE))
        /\ UNCHANGED <<cartVars, invRest, orderCancelled, ordVars, subVars>>
  \/ (OrderHandler(One) /\ UNCHANGED <<cartVars, invVars, orderCancelled, subVars>>)
  \/ (\E a \in 1 .. Len(stockAvailable) : OrderCancelledArrives(a))
        /\ UNCHANGED <<cartVars, invVars, ordVars, subVars>>
  \/ (NotifyHandler(One)
        /\ UNCHANGED <<cartVars, invVars, orderCancelled, ordVars, cartRejAcked, cartAvailAcked>>)
  \/ (NotifyFailure(One)
        /\ UNCHANGED <<cartVars, invVars, orderCancelled, ordVars, cartRejAcked, cartAvailAcked>>)

SpecNotify == InitConverted /\ [][NextNotify]_vars

\* ---- SpecOversell: the order-requested handler, MaxInFlight deliveries at
\* a time, for two converted carts of LAP-001, of which ten are in stock.
OversellQtys == {6, 8}

InitOversell ==
  /\ \E choice \in [1 .. 2 -> OversellQtys] :
       /\ carts = [c \in 1 .. 2 |-> [customer_id |-> "john", cart_locked |-> TRUE,
                                      status |-> "active"]]
       /\ cart_items = [c \in CartIds |->
                          IF c <= 2 THEN [s \in SKUs |-> IF s = "LAP-001" THEN choice[c] ELSE 0]
                                    ELSE NoItems]
       /\ orderRequested = [c \in 1 .. 2 |->
                              [cart_id |-> c, customer_id |-> "john",
                               items |-> [s \in SKUs |-> IF s = "LAP-001" THEN choice[c] ELSE 0]]]
  /\ rowLock = [c \in CartIds |-> 0]
  /\ req = [r \in Reqs |-> IdleReq]
  /\ adds = 0
  /\ added = [cust \in Customers |-> [s \in SKUs |-> Stored(cart_items, MaxCarts, s)]]
  /\ inTx = [r \in Reqs |-> FALSE]
  /\ InitInv
  /\ InitOrd
  /\ InitNot

NextOversell ==
  \/ (StockCheckHandler(Workers) /\ UNCHANGED <<cartVars, orderCancelled, ordVars, subVars>>)
  \/ (StockCheckFailure(Workers) /\ UNCHANGED <<cartVars, orderCancelled, ordVars, subVars>>)

SpecOversell == InitOversell /\ [][NextOversell]_vars

\* ---- SpecCancel: PUT /orders/:orderId/cancel, MaxReqs requests at a
\* time, on the orders the stock-available handler makes, one delivery at
\* a time.
NextCancel ==
  \/ (\E c \in CartIds, priced \in BOOLEAN : StockAvailableArrives(c, priced))
        /\ UNCHANGED <<cartVars, invRest, orderCancelled, ordVars, subVars>>
  \/ (OrderHandler(One) /\ UNCHANGED <<cartVars, invVars, orderCancelled, subVars>>)
  \/ (CancelRequest(Reqs) /\ UNCHANGED <<cartRest, invVars, subVars>>)

SpecCancel == InitConverted /\ [][NextCancel]_vars

\* ---- SpecDeliveries: every subscription of the four services, one
\* delivery at a time, with failing statements and publishes: the
\* Inventory service's two handlers, the Order service's handler, the Cart
\* service's two handlers and the Notification service's three. One cart
\* has been converted; a stock-available event with prices and the
\* cancellation of its order are on their topics.
InitDeliveries ==
  /\ \E items \in ItemChoices :
       /\ carts = <<[customer_id |-> "john", cart_locked |-> TRUE, status |-> "active"]>>
       /\ cart_items = [c \in CartIds |-> IF c = 1 THEN items ELSE NoItems]
       /\ orderRequested = <<[cart_id |-> 1, customer_id |-> "john", items |-> items]>>
       /\ stockAvailable = <<[cart_id |-> 1, customer_id |-> "john", items |-> items,
                              available |-> InitialInventory, cause |-> 1, priced |-> TRUE]>>
       /\ orderCancelled = <<[order_id |-> 1, customer_id |-> "john", cart_id |-> 1,
                              items |-> items]>>
  /\ rowLock = [c \in CartIds |-> 0]
  /\ req = [r \in Reqs |-> IdleReq]
  /\ adds = 0
  /\ added = [cust \in Customers |-> [s \in SKUs |-> Stored(cart_items, MaxCarts, s)]]
  /\ inTx = [r \in Reqs |-> FALSE]
  /\ inventory = InitialInventory
  /\ invLedger = {}
  /\ invW = [w \in Workers |-> IdleW]
  /\ invAcked = {}
  /\ canW = [w \in Workers |-> IdleW]
  /\ canAcked = {}
  /\ restocks = [m \in 1 .. MaxCancels |-> NoItems]
  /\ inventoryStatus = <<>>
  /\ stockRejected = <<>>
  /\ orders = <<>>
  /\ order_items = <<>>
  /\ ordLock = {}
  /\ ordLedger = {}
  /\ ordW = [w \in Workers |-> IdleO]
  /\ ordAcked = {}
  /\ oreq = [r \in Reqs |-> IdleOReq]
  /\ orderCreated = <<>>
  /\ cartRejAcked = {}
  /\ cartAvailAcked = {}
  /\ InitNot

NextDeliveries ==
  \/ (StockCheckHandler(One) /\ UNCHANGED <<cartVars, orderCancelled, ordVars, subVars>>)
  \/ (StockCheckFailure(One) /\ UNCHANGED <<cartVars, orderCancelled, ordVars, subVars>>)
  \/ (RestockHandler(One) /\ UNCHANGED <<cartVars, orderCancelled, ordVars, subVars>>)
  \/ (RestockFailure(One) /\ UNCHANGED <<cartVars, orderCancelled, ordVars, subVars>>)
  \/ (OrderHandler(One) /\ UNCHANGED <<cartVars, invVars, orderCancelled, subVars>>)
  \/ (\E m \in 1 .. Len(stockRejected) : CartOnStockRejected(m))
        /\ UNCHANGED <<invVars, orderCancelled, ordVars>>
  \/ (\E m \in 1 .. Len(stockAvailable) : CartOnStockAvailable(m))
        /\ UNCHANGED <<cartVars, invVars, orderCancelled>>
  \/ (NotifyHandler(One)
        /\ UNCHANGED <<cartVars, invVars, orderCancelled, ordVars, cartRejAcked, cartAvailAcked>>)
  \/ (NotifyFailure(One)
        /\ UNCHANGED <<cartVars, invVars, orderCancelled, ordVars, cartRejAcked, cartAvailAcked>>)

SpecDeliveries == InitDeliveries /\ [][NextDeliveries]_vars

\* ---- SpecOrder: the Order service's stock-available handler as
\* subscribeToTopics registers it, MaxInFlight deliveries at a time, and the
\* Cart service's subscriber of the same topic.
NextOrder ==
  \/ (\E c \in CartIds, priced \in BOOLEAN : StockAvailableArrives(c, priced))
        /\ UNCHANGED <<cartVars, invRest, orderCancelled, ordVars, subVars>>
  \/ (OrderHandler(Workers) /\ UNCHANGED <<cartVars, invVars, orderCancelled, subVars>>)
  \/ (\E m \in 1 .. Len(stockAvailable) : CartOnStockAvailable(m))
        /\ UNCHANGED <<cartVars, invVars, orderCancelled>>

SpecOrder == InitConverted /\ [][NextOrder]_vars

\* ---- SpecLedger: the two consumers that keep the ledger around their
\* handler, with failing statements and publishes and a failing ledger
\* store: the Inventory service's consumer of order-requested, MaxInFlight
\* deliveries at a time, and the Order service's consumer of
\* stock-available, one delivery at a time, of the Inventory service's
\* events (items without a price) and of events with a price.
NextLedger ==
  \/ (StockCheckHandler(Workers) /\ UNCHANGED <<cartVars, orderCancelled, ordVars, subVars>>)
  \/ (StockCheckFailure(Workers) /\ UNCHANGED <<cartVars, orderCancelled, ordVars, subVars>>)
  \/ (StockCheckLedgerFailure(Workers) /\ UNCHANGED <<cartVars, orderCancelled, ordVars, subVars>>)
  \/ (\E c \in CartIds : StockAvailableArrives(c, TRUE))
        /\ UNCHANGED <<cartVars, invRest, orderCancelled, ordVars, subVars>>
  \/ (OrderHandler(One) /\ UNCHANGED <<cartVars, invVars, orderCancelled, subVars>>)
  \/ (OrderLedgerFailure(One) /\ UNCHANGED <<cartVars, invVars, orderCancelled, subVars>>)

SpecLedger == InitConverted /\ [][NextLedger]_vars

\* ---- SpecAll: the three services together, each handling one request or
\* one delivery at a time, nothing failing; the Order service's handler as
\* subscribeToTopics registers it. The stock-available events here are the
\* Inventory service's, whose items carry no price: the Order service's
\* handler inserts the order row and stops at the first item (SpecOrder
\* has the events with a price).
CartStep == CartRequest(One) /\ UNCHANGED <<invVars, orderCancelled, ordVars, subVars>>
StockCheckStep == StockCheckHandler(One) /\ UNCHANGED <<cartVars, orderCancelled, ordVars, subVars>>
RejectedStep ==
  (\E m \in 1 .. Len(stockRejected) : CartOnStockRejected(m))
     /\ UNCHANGED <<invVars, orderCancelled, ordVars>>
AvailableStep ==
  (\E m \in 1 .. Len(stockAvailable) : CartOnStockAvailable(m))
     /\ UNCHANGED <<cartVars, invVars, orderCancelled>>
OrderStep == OrderHandler(One) /\ UNCHANGED <<cartVars, invVars, orderCancelled, subVars>>
CancelStep == CancelRequest(One) /\ UNCHANGED <<cartRest, invVars, subVars>>

NextAll ==
  \/ CartStep
  \/ StockCheckStep
  \/ RejectedStep
  \/ AvailableStep
  \/ OrderStep
  \/ CancelStep

SpecAll == InitSystem /\ [][NextAll]_vars

\* ---- SpecStarted: the services as their startup code leaves them. The
\* Cart and Inventory services call subscribeToTopics() when they start
\* listening; the Order service's startup calls initializeDatabase() and
\* app.listen() only, so its stock-available handler is never registered
\* and its endpoints find no order. Deliveries are fair, nothing fails.
NextStarted ==
  \/ CartStep
  \/ StockCheckStep
  \/ RejectedStep
  \/ AvailableStep

SpecStarted ==
  /\ InitSystem
  /\ [][NextStarted]_vars
  /\ WF_vars(StockCheckStep)
  /\ WF_vars(RejectedStep)
  /\ WF_vars(AvailableStep)

\* ================================================== claims
Locked(c) == c \in 1 .. Len(carts) /\ carts[c].cart_locked
OrdersOf(c) == {o \in 1 .. Len(orders) : orders[o].cart_id = c}
RequestsFor(c) == {i \in 1 .. Len(orderRequested) : orderRequested[i].cart_id = c}
ConvertedBy(c) == {r \in Reqs : req[r].op = "convert" /\ req[r].res = 200 /\ req[r].cart = c}
DecisionsFor(m) ==
  Cardinality({i \in 1 .. Len(stockAvailable) : stockAvailable[i].cause = m})
    + Cardinality({i \in 1 .. Len(stockRejected) : stockRejected[i].cause = m})

\* C1 (SpecCartOk): when convert_to_order runs concurrently for one customer,
\* a cart is locked by at most one request and at most one checkout-requested
\* event is published per cart.
C1_OneCheckoutPerCart ==
  \A c \in CartIds :
    /\ Cardinality(ConvertedBy(c)) <= 1
    /\ Cardinality(RequestsFor(c)) <= 1

\* C2 (SpecOrder): after any deliveries of stock-available messages to the
\* Order service (a redelivery, two in flight at once, distinct messages
\* with the same cart id) there is at most one order row per cart id.
C2_OneOrderPerCart == \A c \in CartIds : Cardinality(OrdersOf(c)) <= 1

\* C3 (SpecInv): for a checkout-requested message delivered two or more
\* times, the stock-available and stock.rejected events published for it
\* number at most one in total.
C3_OneDecisionPerMessage ==
  \A m \in 1 .. Len(orderRequested) : DecisionsFor(m) <= 1

\* C4 (SpecInv): for an order-cancelled message delivered any number of
\* times, each SKU of the order is restocked at most once.
C4_RestockAtMostOnce ==
  \A m \in 1 .. Len(orderCancelled) : \A s \in SKUs : restocks[m][s] <= 1

\* C5 (SpecInv): when the order made for a confirmed checkout has been
\* cancelled and its order-cancelled message handled exactly once, and
\* nothing else was cancelled, every SKU's stock is what it was before the
\* order.
C5_CancelRestoresStock ==
  ( /\ Len(orderCancelled) = 1
    /\ 1 \in canAcked
    /\ \A s \in SKUs : restocks[1][s] = (IF s \in Lines(orderCancelled[1].items) THEN 1 ELSE 0)
    /\ \A w \in Workers : canW[w].pc = "idle" )
  => inventory = InitialInventory

C8_OneActiveCart == \A cust \in Customers : Cardinality(UnlockedCarts(cust)) <= 1

\* C9 (SpecCart): a cart whose lock is committed has a checkout-requested
\* event published for it, whatever publish or commit failed.
C9_LockedCartHasEvent == \A c \in CartIds : Locked(c) => RequestsFor(c) # {}

\* C9's case: a convert has committed the lock of a cart, and another
\* convert has failed at its publish or its commit.
C9_Witness ==
  /\ \E c \in CartIds : Locked(c) /\ ConvertedBy(c) # {}
  /\ \E r \in Reqs : req[r].op = "convert" /\ req[r].res = 500

\* C10 (SpecStarted): with fair delivery and nothing failing, every locked
\* cart eventually has an order with its cart id or the status
\* stock-unavailable.
C10_LockedCartSettles ==
  \A c \in CartIds :
    [](Locked(c) => <>(Locked(c) /\ (OrdersOf(c) # {} \/ carts[c].status = "stock-unavailable")))

\* C11 (SpecInv): a message whose handling failed (marked failed, nacked) is
\* handled again when it is redelivered: an order-requested message that has
\* been acknowledged has had its stock decision published, it was not skipped.
C11_AckedMessageWasApplied ==
  \A m \in invAcked : DecisionsFor(m) >= 1

\* C12 (SpecAdd): after any number of successful add_item calls for a
\* customer and a SKU, sequential or concurrent, with no remove and no
\* convert, one unlocked cart of the customer holds a line for the SKU
\* whose quantity is the sum of the quantities added, and no other
\* unlocked cart of the customer holds a line for it.
C12_LineHoldsSum ==
  \A cust \in Customers : \A s \in SKUs :
    added[cust][s] > 0 =>
      \E c \in UnlockedCarts(cust) :
        /\ cart_items[c][s] = added[cust][s]
        /\ \A d \in UnlockedCarts(cust) \ {c} : cart_items[d][s] = 0

HasRow(ledger, id, status) == \E row \in ledger : row.message_id = id /\ row.status = status

C14_AckedAfterSuccessRow ==
  /\ \A m \in invAcked :
       DecisionsFor(m) >= 1 => HasRow(invLedger, MsgId("order-requested", m), "success")
  /\ \A m \in ordAcked :
       (Len(stockAvailable) = 1 /\ orderCreated # <<>>)
         => HasRow(ordLedger, MsgId("stock-available", m), "success")

\* C15 (SpecLedger): a delivery whose handler failed ends with the attempt
\* to record a failed ledger row and then the nack: it never ends straight
\* from the handler's steps, the row is recorded or (the ledger write
\* failing) the ledger is as before, the message is not acknowledged and
\* nothing else changes.
C15_FailedThenNacked ==
  [][ /\ \A w \in Workers :
           /\ invW[w].pc \in {"read", "publish"} => invW'[w].pc # "idle"
           /\ (invW[w].pc = "failed" /\ invW'[w] # invW[w])
                => /\ invW'[w] = IdleW
                   /\ invAcked' = invAcked
                   /\ invLedger' \in {invLedger,
                                      markMessageProcessed(invLedger,
                                         MsgId("order-requested", invW[w].msg),
                                         "order-requested", "failed")}
                   /\ UNCHANGED <<inventory, inventoryStatus, stockAvailable, stockRejected>>
      /\ \A w \in Workers :
           /\ ordW[w].pc \in {"insert", "items"} => ordW'[w].pc # "idle"
           /\ (ordW[w].pc = "failed" /\ ordW'[w] # ordW[w])
                => /\ ordW'[w] = IdleO
                   /\ ordAcked' = ordAcked
                   /\ ordLedger' \in {ordLedger,
                                      markMessageProcessed(ordLedger,
                                         MsgId("stock-available", ordW[w].msg),
                                         "stock-available", "failed")}
                   /\ UNCHANGED <<orders, order_items, orderCreated>>
    ]_vars

\* C15's case: the one stock-available message, without prices, has failed
\* in the Order service (its order row is there) and its delivery has ended
\* with no ledger row written and no acknowledgement; the order-requested
\* message has a failed row and is not acknowledged.
C15_Witness ==
  /\ Len(stockAvailable) = 1 /\ ~stockAvailable[1].priced
  /\ Len(orders) >= 1
  /\ \A w \in Workers : ordW[w].pc = "idle"
  /\ ordLedger = {} /\ ordAcked = {}
  /\ \E m \in 1 .. Len(orderRequested) :
       HasRow(invLedger, MsgId("order-requested", m), "failed") /\ m \notin invAcked

\* C16 (SpecLedger): when the ledger read fails, the check answers false
\* whatever the ledger holds, and the consumer goes on to run its business
\* logic on the message instead of acknowledging it as a duplicate.
C16_ReadFailureFailsOpen ==
  [][ /\ \A w \in Workers, m \in 1 .. MaxMsgs :
           InvReceiveUnread(w, m)
             => /\ ~isMessageProcessedOr(invLedger, MsgId("order-requested", m), FALSE)
                /\ invW'[w].pc = "read" /\ invW'[w].msg = m
                /\ invAcked' = invAcked
      /\ \A w \in Workers, m \in 1 .. MaxAvail :
           OrdReceiveUnread(w, m)
             => /\ ~isMessageProcessedOr(ordLedger, MsgId("stock-available", m), FALSE)
                /\ ordW'[w].pc = "insert" /\ ordW'[w].msg = m
                /\ ordAcked' = ordAcked
    ]_vars

\* C16's case: the Order service's consumer has started on a message that
\* already has a ledger row, which only a failed ledger read lets through.
C16_Witness ==
  /\ ordW[1].pc = "insert"
  /\ isMessageProcessed(ordLedger, MsgId("stock-available", ordW[1].msg))

OneRowPerMessage(ledger) ==
  \A r1, r2 \in ledger : r1.message_id = r2.message_id => r1 = r2

\* C17 (SpecInv): recording a message that already has a ledger row ends
\* the delivery as any other recording does, leaves the ledger with its one
\* row for the message, and changes neither the stock nor the topics.
C17_SecondMarkIsAbsorbed ==
  [][ /\ OneRowPerMessage(invLedger') /\ OneRowPerMessage(ordLedger')
      /\ \A w \in Workers :
           /\ ( /\ invW[w].pc \in {"mark", "failed"} /\ invW'[w] # invW[w]
                /\ isMessageProcessed(invLedger, MsgId("order-requested", invW[w].msg)) )
                => /\ invW'[w] = IdleW
                   /\ UNCHANGED <<invLedger, inventory, restocks,
                                  inventoryStatus, stockAvailable, stockRejected>>
           /\ ( /\ \/ canW[w].pc = "failed"
                   \/ canW[w].pc = "restock" /\ canW[w].todo = {}
                /\ canW'[w] # canW[w]
                /\ isMessageProcessed(invLedger, MsgId("order-cancelled", canW[w].msg)) )
                => /\ canW'[w] = IdleW
                   /\ UNCHANGED <<invLedger, inventory, restocks,
                                  inventoryStatus, stockAvailable, stockRejected>>
    ]_vars

\* C17's case: two deliveries of one order-requested message ran together,
\* one failed and recorded its row, the other published its decision, and
\* both have ended: the second recording met the first one's row.
C17_Witness ==
  \E m \in 1 .. Len(orderRequested) :
    /\ HasRow(invLedger, MsgId("order-requested", m), "failed")
    /\ DecisionsFor(m) >= 1
    /\ m \in invAcked
    /\ \A w \in Workers : invW[w].pc = "idle"

\* C18 (SpecCart): a conversion started for a customer without an unlocked
\* cart answers 404, one that finds its cart without items answers 400;
\* these answers are given in no other case, and the step that gives one
\* changes no cart row, no item row, takes no row lock and publishes
\* nothing.
C18_ConvertRefusals ==
  [][ \A r \in Reqs :
        /\ ( /\ req[r].pc = "idle" /\ req'[r] # req[r] /\ req'[r].op = "convert"
             /\ UnlockedCarts(req'[r].customer) = {} )
             => req'[r].pc = "idle" /\ req'[r].res = 404
        /\ ( /\ req[r].pc = "conv_items" /\ req'[r] # req[r]
             /\ cart_items[req[r].cart] = NoItems )
             => req'[r].pc = "idle" /\ req'[r].res = 400
        /\ ( /\ req'[r] # req[r] /\ req'[r].op = "convert" /\ req'[r].pc = "idle"
             /\ req'[r].res = 404 )
             => /\ req[r].pc = "idle"
                /\ UnlockedCarts(req'[r].customer) = {}
                /\ UNCHANGED <<carts, cart_items, rowLock, orderRequested>>
        /\ ( /\ req'[r] # req[r] /\ req'[r].op = "convert" /\ req'[r].pc = "idle"
             /\ req'[r].res = 400 )
             => /\ req[r].pc = "conv_items"
                /\ cart_items[req[r].cart] = NoItems
                /\ UNCHANGED <<carts, cart_items, rowLock, orderRequested>>
    ]_vars

\* C18's case: one conversion was answered 404 for a customer whose only
\* carts are locked, another one was answered 400 for an unlocked cart
\* that has no items.
C18_Witness ==
  \E r1, r2 \in Reqs :
    /\ req[r1].op = "convert" /\ req[r1].pc = "idle" /\ req[r1].res = 404
    /\ req[r2].op = "convert" /\ req[r2].pc = "idle" /\ req[r2].res = 400
    /\ \E c \in 1 .. Len(carts) : carts[c].cart_locked
    /\ \E c \in 1 .. Len(carts) : ~carts[c].cart_locked /\ cart_items[c] = NoItems

C20_CancelSucceeds ==
  [][ \A r \in Reqs :
        (oreq[r].pc = "cancel_cart" /\ oreq'[r] # oreq[r])
          => LET o == oreq[r].order IN
               /\ oreq'[r].res = 200
               /\ orders'[o].status = "cancelled"
               /\ orderCancelled' = Append(orderCancelled,
                    [order_id |-> o, customer_id |-> orders[o].customer_id,
                     cart_id |-> orders[o].cart_id, items |-> order_items[o]])
    ]_vars

AvailableFor(m) == {i \in 1 .. Len(stockAvailable) : stockAvailable[i].cause = m}
RejectedFor(m) == {i \in 1 .. Len(stockRejected) : stockRejected[i].cause = m}

\* C21 (SpecStock), the statement the code does not keep: a
\* checkout-requested message that has been answered has exactly one
\* decision event, stock-available when every requested line was covered by
\* the quantity read for it and stock.rejected otherwise, and never one of
\* each.
C21_OneDecisionMatchingStock ==
  \A m \in 1 .. Len(orderRequested) :
    /\ DecisionsFor(m) <= 1
    /\ AvailableFor(m) = {} \/ RejectedFor(m) = {}
    /\ \A i \in AvailableFor(m) :
         allSufficient(orderRequested[m].items, stockAvailable[i].available)
    /\ \A i \in RejectedFor(m) :
         ~allSufficient(orderRequested[m].items, stockRejected[i].available)

C23_LockAndStatusAgree ==
  \A c \in 1 .. Len(carts) :
    IF carts[c].cart_locked
      THEN carts[c].status \in {"processing", "stock-unavailable"}
      ELSE carts[c].status = "active"

C25_RejectionUnlocks ==
  \A m \in cartRejAcked :
    /\ carts[stockRejected[m].cart_id].status = "stock-unavailable"
    /\ ~carts[stockRejected[m].cart_id].cart_locked

\* C26 (SpecNotify), the statement the code does not keep: when a delivery
\* to the Notification service ends, acknowledged or not, the INSERT of the
\* email record and the INSERT of the push record have both been attempted
\* in it.
C26_BothChannelsAttempted ==
  \A w \in Workers : notW[w].pc \in {"ack", "failed"} => notW[w].tried = Channels

\* C27 (SpecOrder), the statement the code does not keep: a handler that
\* failed has left nothing behind. Every order row that no running handler
\* is still filling has its item rows, and a restock delivery that has
\* reached its catch block has incremented no SKU.
C27_AllOrNothing ==
  /\ \A o \in 1 .. Len(orders) :
       (\A w \in Workers : ~(ordW[w].order = o /\ ordW[w].pc = "items"))
         => order_items[o] # NoItems
  /\ \A w \in Workers :
       canW[w].pc = "failed"
         => canW[w].todo = Lines(orderCancelled[canW[w].msg].items)

\* C28 (SpecOrder), the statement the code does not keep: every order row
\* has a status among pending, confirmed and cancelled, and an order made
\* from a stock-available event is confirmed for as long as it is not
\* cancelled.
C28_OrderStatusConfirmed ==
  \A o \in 1 .. Len(orders) :
    /\ orders[o].status \in {"pending", "confirmed", "cancelled"}
    /\ orders[o].status # "cancelled" => orders[o].status = "confirmed"

\* quantity times unit price, summed over the lines
LinesTotal(items) == items["LAP-001"] * Price("LAP-001") + items["PHN-001"] * Price("PHN-001")

\* C29 (SpecOrder), the statement the code does not keep: an order made
\* from a stock-available event has as its total the sum over the event's
\* lines of quantity times unit price and, once its handler is past the
\* item inserts, one item row per line of the event with the line's
\* quantity.
C29_TotalAndLines ==
  \A o \in 1 .. Len(orders) :
    /\ orders[o].total_amount = LinesTotal(cart_items[orders[o].cart_id])
    /\ (\A w \in Workers : ~(ordW[w].order = o /\ ordW[w].pc = "items"))
         => order_items[o] = cart_items[orders[o].cart_id]

\* C30 (SpecCart), the statement the code does not keep: a remove_item
\* that finds no line for the SKU in the customer's unlocked cart answers
\* 200 and changes no cart and no item; one that finds no unlocked cart
\* answers 404, changes nothing and leaves no transaction open; and no
\* remove_item changes the items of a locked cart.
C30_RemoveItem ==
  [][ \A r \in Reqs :
        /\ ( /\ req[r].pc = "rm_write" /\ req'[r] # req[r]
             /\ cart_items[req[r].cart][req[r].sku] = 0 )
             => /\ req'[r].res = 200
                /\ UNCHANGED <<carts, cart_items>>
        /\ ( /\ req[r].pc = "idle" /\ req'[r].op = "remove"
             /\ (req'[r] # req[r] \/ inTx'[r] # inTx[r])
             /\ UnlockedCarts(req'[r].customer) = {} )
             => /\ req'[r].pc = "idle" /\ req'[r].res = 404
                /\ UNCHANGED <<carts, cart_items, rowLock, orderRequested>>
                /\ ~inTx'[r]
        /\ (req[r].pc = "rm_write" /\ req'[r] # req[r])
             => \A c \in 1 .. Len(carts) :
                  carts[c].cart_locked => cart_items'[c] = cart_items[c]
    ]_vars

RECURSIVE Restocked(_, _)
Restocked(n, s) ==
  IF n = 0 THEN 0
  ELSE restocks[n][s] * orderCancelled[n].items[s] + Restocked(n - 1, s)

\* C32 (SpecInv): every restock UPDATE adds the item's quantity to its SKU
\* and to nothing else, so that a SKU's quantity is its initial one plus
\* the event quantities of the UPDATEs executed for it; a delivery recorded
\* as a success has executed the UPDATE of every item of its event and of
\* no other SKU.
C32_RestockAddsQuantities ==
  /\ \A s \in SKUs :
       inventory[s] = InitialInventory[s] + Restocked(Len(orderCancelled), s)
  /\ \A m \in 1 .. Len(orderCancelled) :
       /\ \A s \in SKUs \ Lines(orderCancelled[m].items) : restocks[m][s] = 0
       /\ HasRow(invLedger, MsgId("order-cancelled", m), "success")
            => \A s \in Lines(orderCancelled[m].items) : restocks[m][s] >= 1

\* C32's case: an order-cancelled event with two items has been handled in
\* one delivery, and both quantities are the old ones plus the event's.
C32_Witness ==
  \E m \in canAcked :
    /\ Lines(orderCancelled[m].items) = SKUs
    /\ \A s \in SKUs : restocks[m][s] = 1
    /\ \A s \in SKUs : inventory[s] = InitialInventory[s] + orderCancelled[m].items[s]

\* C33 (SpecOversell): a checkout is measured against the whole stock,
\* whatever has been confirmed before it: every decision published for a
\* checkout-requested message is stock-available exactly when each of its
\* lines is within the stock on hand.
C33_ConfirmedAgainstWholeStock ==
  /\ inventory = InitialInventory
  /\ \A m \in 1 .. Len(orderRequested) :
       IF allSufficient(orderRequested[m].items, InitialInventory)
         THEN RejectedFor(m) = {}
         ELSE AvailableFor(m) = {}

\* C33's case, overselling: two carts have been answered with
\* stock-available for one SKU, each asking for no more than the stock and
\* the two together for more.
C33_Witness ==
  \E i, j \in 1 .. Len(stockAvailable) : \E s \in SKUs :
    /\ stockAvailable[i].cart_id # stockAvailable[j].cart_id
    /\ stockAvailable[i].items[s] <= inventory[s]
    /\ stockAvailable[j].items[s] <= inventory[s]
    /\ stockAvailable[i].items[s] + stockAvailable[j].items[s] > inventory[s]

RecordsOf(topic, m, channel) ==
  {i \in 1 .. Len(notifications) :
     /\ notifications[i].topic = topic /\ notifications[i].msg = m
     /\ notifications[i].channel = channel}

\* C34 (SpecNotify), the statement the code does not keep: however often a
\* message is delivered to the Notification service, the table holds at
\* most one record per message and channel.
C34_OneRecordPerChannel ==
  \A topic \in NotTopics : \A m \in 1 .. Len(Published(topic)) : \A channel \in Channels :
    Cardinality(RecordsOf(topic, m, channel)) <= 1

\* C35 (SpecCart), the statement the code does not keep: whatever add_item
\* and remove_item requests ran alongside the conversion, the items of a
\* locked cart are the items of the checkout-requested event published for
\* it.
C35_LockedItemsAreTheEvents ==
  \A c \in 1 .. Len(carts) :
    carts[c].cart_locked
      => \A i \in RequestsFor(c) : orderRequested[i].items = cart_items[c]

\* C36 (SpecCart), the statement the code does not keep: a published
\* checkout-requested event belongs to a cart whose lock is committed or
\* whose conversion has still to commit; a conversion that ended in an
\* error has published none.
C36_EventOnlyWithCommittedLock ==
  \A i \in 1 .. Len(orderRequested) :
    \/ carts[orderRequested[i].cart_id].cart_locked
    \/ \E r \in Reqs : req[r].pc = "conv_commit" /\ req[r].cart = orderRequested[i].cart_id

CancelledEventsOf(o) == {i \in 1 .. Len(orderCancelled) : orderCancelled[i].order_id = o}

\* C37 (SpecCancel), the statement the code does not keep: once a
\* cancel_order request for an existing order has been answered, alone or
\* alongside others, the order is cancelled, by exactly one request, and
\* exactly one order-cancelled event is published for it; no order ever has
\* more than one.
C37_OneCancelSucceeds ==
  \A o \in 1 .. Len(orders) :
    /\ Cardinality(CancelledEventsOf(o)) <= 1
    /\ (\E r \in Reqs : oreq[r].pc = "idle" /\ oreq[r].order = o /\ oreq[r].res # 0)
         => /\ orders[o].status = "cancelled"
            /\ Cardinality(CancelledEventsOf(o)) = 1

\* C38 (SpecOrder), the statement the code does not keep: a delivery to the
\* Order service of a stock-available message whose items lack the
\* required price inserts no order and no item row and publishes no
\* order-created event, and when it ends the ledger holds the message as
\* failed and the message is not acknowledged.
C38_MalformedMessageChangesNothing ==
  [][ \A w \in Workers :
        ( /\ ordW[w].pc # "idle"
          /\ ordW'[w] # ordW[w]
          /\ ~stockAvailable[ordW[w].msg].priced )
          => /\ UNCHANGED <<orders, order_items, orderCreated>>
             /\ ordW'[w].pc = "idle"
                  => /\ HasRow(ordLedger', MsgId("stock-available", ordW[w].msg), "failed")
                     /\ ordAcked' = ordAcked ]_vars

\* The delivery that `before' was handling has ended in `after': from the
\* catch block with message.nack() alone, the set of acknowledged messages
\* as it was, or from the last statement of the try block with
\* message.ack() alone, the message newly acknowledged.
AckXorNack(before, after, ackedBefore, ackedAfter, id) ==
  (before.pc # "idle" /\ after.pc = "idle")
    => IF before.pc = "failed"
         THEN ackedAfter = ackedBefore
         ELSE id \notin ackedBefore /\ ackedAfter = ackedBefore \cup {id}

\* one message.ack() at most in a step
OneAck(ackedBefore, ackedAfter) ==
  ackedAfter # ackedBefore
    => \E id \in ackedAfter \ ackedBefore : ackedAfter = ackedBefore \cup {id}

====
